---- MODULE Spec2Model ----
(***************************************************************************)
(* Logbook and attendance management (src/ai.py): a SQLite store with two  *)
(* tables, the Streamlit script that is re-executed on every interaction,  *)
(* and the bag-of-words similarity suggestion.                             *)
(***************************************************************************)
EXTENDS Integers, Sequences, FiniteSets

(* ------------------------------ bounds --------------------------------- *)

\* Rows a table may hold before the model stops inserting into it.
MaxRows == 2

\* Days the clock may advance past StartDate.
MaxDay == 1

(* ------------------------------ inputs --------------------------------- *)

Names == {"Alice"}

\* The options of the "Activity" select box.
Activities == {"Lecture", "Meeting", "Task", "Event", "Other"}

\* The activities the model's user picks.
PickedActivities == {"Meeting"}

Students == {"Bob"}

RollNumbers == {"R101"}

\* The options of the "Attendance Status" select box.
Statuses == {"Present", "Absent"}

\* Calendar dates are records; the clock starts on the last day of a year.
StartDate == [year |-> 2023, month |-> 12, day |-> 31]

\* The dates the user picks in the log entry form's date input.
PickedDates == {[year |-> 2023, month |-> 12, day |-> 31],
                [year |-> 2024, month |-> 1, day |-> 1]}

\* A text is the sequence of its whitespace-separated words.
Descriptions == {<<"x", "y">>, <<"weekly", "sync">>, <<"Sync", "status">>}

\* What the user types in the "Log Description" text area (<<>> is blank).
Queries == {<<>>, <<"weekly", "sync">>, <<"status">>}

\* Storage failures: none, in the statement, or in the commit.
Faults == {"none", "execute", "commit"}

(* ------------------------------- state -------------------------------- *)

VARIABLES
    page,           \* the page the run executed, "none" before it does
    pc,             \* "start": no run yet; "ui": tables created, a page runs next;
                    \* "done": the run ended
    db,             \* the database file
    clock,          \* days elapsed since StartDate
    logbook_df,     \* the run's logbook data frame
    attendance_df,  \* the run's attendance data frame
    fetched,        \* the data frames the run has read
    ui,             \* the notices the run has shown
    raised,         \* the exception that ended the run, or "none"
    suggestion,     \* what the run's call of ai_suggestions left behind
    added,          \* history: the entries of the add_log_entry calls that returned
    marked          \* history: the mark_attendance calls that returned, with their day

vars == <<page, pc, db, clock, logbook_df, attendance_df, fetched, ui, raised, suggestion, added,
          marked>>

(* ------------------------- dates and date text ------------------------- *)

DaysInMonth(y, m) ==
    IF m = 2
    THEN (IF (y % 4 = 0 /\ y % 100 # 0) \/ y % 400 = 0 THEN 29 ELSE 28)
    ELSE IF m \in {4, 6, 9, 11} THEN 30 ELSE 31

NextDate(d) ==
    IF d.day < DaysInMonth(d.year, d.month)
    THEN [d EXCEPT !.day = d.day + 1]
    ELSE IF d.month < 12
         THEN [year |-> d.year, month |-> d.month + 1, day |-> 1]
         ELSE [year |-> d.year + 1, month |-> 1, day |-> 1]

RECURSIVE DateAfter(_, _)
DateAfter(d, n) == IF n = 0 THEN d ELSE DateAfter(NextDate(d), n - 1)

DigitChar == <<"0", "1", "2", "3", "4", "5", "6", "7", "8", "9">>

\* n as `width` decimal digits, zero padded.
RECURSIVE Pad(_, _)
Pad(n, width) ==
    IF width = 0 THEN <<>>
    ELSE Pad(n \div 10, width - 1) \o <<DigitChar[(n % 10) + 1]>>

\* strftime("%Y-%m-%d") for years 1000..9999.
strftime(d) == Pad(d.year, 4) \o <<"-">> \o Pad(d.month, 2) \o <<"-">> \o Pad(d.day, 2)

\* The byte of a character of a date text.
Ord(c) == IF c = "-" THEN 45 ELSE 47 + (CHOOSE i \in 1..10 : DigitChar[i] = c)

\* SQLite's BINARY collation on TEXT: memcmp, then the shorter text first.
RECURSIVE TextLess(_, _)
TextLess(a, b) ==
    IF b = <<>> THEN FALSE
    ELSE IF a = <<>> THEN TRUE
    ELSE IF Ord(Head(a)) # Ord(Head(b)) THEN Ord(Head(a)) < Ord(Head(b))
    ELSE TextLess(Tail(a), Tail(b))

TextGeq(a, b) == ~TextLess(a, b)

\* The date datetime.now() shows.
today == DateAfter(StartDate, clock)

(* ------------------------------ the store ------------------------------ *)

AllTables == {"logbook", "attendance"}

NoRows == <<>>

\* A database file that does not hold the tables yet.
EmptyDb ==
    [tables |-> {},
     logbook |-> NoRows,
     attendance |-> NoRows,
     sqlite_sequence |-> [t \in AllTables |-> 0]]

\* Variant: the body's changes are kept although the statement or the commit
\* failed.
with_conn_no_rollback(before, after, fault) ==
    [db |-> after, raised |-> IF fault = "none" THEN "none" ELSE "sqlite3.Error"]

\* `with conn:` commits the body's changes, or rolls them back when the body
\* or the commit raises; the exception propagates either way.
with_conn(before, after, fault) ==
    IF fault = "none"
    THEN [db |-> after, raised |-> "none"]
    ELSE [db |-> before, raised |-> "sqlite3.Error"]

\* Variant: DROP TABLE IF EXISTS, then CREATE TABLE.
create_table_fresh(d, t) ==
    IF t = "logbook"
    THEN [d EXCEPT !.tables = @ \cup {t}, !.logbook = <<>>]
    ELSE [d EXCEPT !.tables = @ \cup {t}, !.attendance = <<>>]

\* CREATE TABLE IF NOT EXISTS: an existing table and its rows are kept.
create_table(d, t) ==
    IF t \in d.tables THEN d ELSE [d EXCEPT !.tables = @ \cup {t}]

create_tables(d, fault) ==
    with_conn(d, create_table(create_table(d, "logbook"), "attendance"), fault)

RECURSIVE MaxId(_)
MaxId(rows) ==
    IF rows = <<>> THEN 0
    ELSE LET m == MaxId(Tail(rows))
         IN  IF Head(rows).id > m THEN Head(rows).id ELSE m

\* Variant: the largest id in use is handed out again.
NextId_reuse(rows, seq) == IF rows = <<>> THEN 1 ELSE MaxId(rows)

\* INTEGER PRIMARY KEY AUTOINCREMENT: one more than the largest id the table
\* ever held.
NextId(rows, seq) == (IF MaxId(rows) > seq THEN MaxId(rows) ELSE seq) + 1

\* Variant: INSERT OR REPLACE keyed on the name, so that a person's new entry
\* takes the place of the earlier ones.
insert_logbook_replace(d, name, activity, date, description) ==
    LET id == NextId(d.logbook, d.sqlite_sequence["logbook"])
    IN  [d EXCEPT !.logbook = Append(SelectSeq(@, LAMBDA r : r.name # name),
                                      [id |-> id, name |-> name,
                                       activity |-> activity, date |-> date,
                                       description |-> description]),
                   !.sqlite_sequence["logbook"] = id]

\* INSERT INTO logbook (name, activity, date, description) VALUES (?, ?, ?, ?)
insert_logbook(d, name, activity, date, description) ==
    LET id == NextId(d.logbook, d.sqlite_sequence["logbook"])
    IN  [d EXCEPT !.logbook = Append(@, [id |-> id, name |-> name,
                                          activity |-> activity, date |-> date,
                                          description |-> description]),
                   !.sqlite_sequence["logbook"] = id]

add_log_entry(d, name, activity, date, description, fault) ==
    IF "logbook" \notin d.tables
    THEN [db |-> d, raised |-> "no such table"]
    ELSE with_conn(d, insert_logbook(d, name, activity, date, description), fault)

\* Variant: one row per student and day, the later mark overwriting the earlier.
insert_attendance_replace(d, student_name, roll_number, date, status) ==
    LET id == NextId(d.attendance, d.sqlite_sequence["attendance"])
        kept == SelectSeq(d.attendance,
                          LAMBDA r : ~(r.student_name = student_name
                                       /\ r.roll_number = roll_number
                                       /\ r.date = date))
    IN  [d EXCEPT !.attendance = Append(kept, [id |-> id, student_name |-> student_name,
                                                roll_number |-> roll_number, date |-> date,
                                                status |-> status]),
                   !.sqlite_sequence["attendance"] = id]

\* INSERT INTO attendance (student_name, roll_number, date, status) VALUES (?, ?, ?, ?)
insert_attendance(d, student_name, roll_number, date, status) ==
    LET id == NextId(d.attendance, d.sqlite_sequence["attendance"])
    IN  [d EXCEPT !.attendance = Append(@, [id |-> id, student_name |-> student_name,
                                             roll_number |-> roll_number, date |-> date,
                                             status |-> status]),
                   !.sqlite_sequence["attendance"] = id]

\* Variant: the date is taken once, when the module is loaded.
mark_attendance_stale(d, student_name, roll_number, status, fault) ==
    IF "attendance" \notin d.tables
    THEN [db |-> d, raised |-> "no such table"]
    ELSE with_conn(d, insert_attendance(d, student_name, roll_number,
                                        strftime(StartDate), status), fault)

\* The date is datetime.now() formatted at the call.
mark_attendance(d, student_name, roll_number, status, fault) ==
    IF "attendance" \notin d.tables
    THEN [db |-> d, raised |-> "no such table"]
    ELSE with_conn(d, insert_attendance(d, student_name, roll_number,
                                        strftime(today), status), fault)

\* Whether a sequence of rows is in date-descending order.
DateDescending(rows) ==
    \A i \in 1..(Len(rows) - 1) : TextGeq(rows[i].date, rows[i + 1].date)

\* ORDER BY date DESC: every arrangement of the rows that is date-descending
\* (SQL leaves the order of rows with equal dates to the engine).
OrderByDateDesc(rows) ==
    LET n == Len(rows)
        perms == {p \in [1..n -> 1..n] : \A i, j \in 1..n : i # j => p[i] # p[j]}
        arranged == {[i \in 1..n |-> rows[p[i]]] : p \in perms}
    IN  {s \in arranged : DateDescending(s)}

\* Variant: SELECT * FROM logbook, the rows as the table holds them.
get_log_entries_unordered(d) == {d.logbook}

\* SELECT * FROM logbook ORDER BY date DESC: the data frames it may return.
get_log_entries(d) == OrderByDateDesc(d.logbook)

\* SELECT * FROM attendance ORDER BY date DESC: the data frames it may return.
get_attendance(d) == OrderByDateDesc(d.attendance)

(* ------------------------ the similarity advisor ----------------------- *)

\* str.lower() on the words the model's texts use.
lower(w) == IF w = "Sync" THEN "sync" ELSE w

\* CountVectorizer's default analyzer: lowercase, then the tokens of two or
\* more word characters.
tokens(text) ==
    SelectSeq([i \in 1..Len(text) |-> lower(text[i])], LAMBDA w : Len(w) >= 2)

\* How often term t occurs among the tokens of a text.
count(t, text) == Cardinality({i \in 1..Len(tokens(text)) : tokens(text)[i] = t})

vocabulary(texts) ==
    UNION {{tokens(texts[i])[k] : k \in 1..Len(tokens(texts[i]))} : i \in 1..Len(texts)}

\* CountVectorizer().fit_transform(descriptions): the document-term matrix (a
\* scipy csr_matrix, not the fitted vectorizer), or ValueError when no
\* description holds a token.
fit_transform(texts) ==
    IF vocabulary(texts) = {}
    THEN [raised |-> "ValueError", type |-> "none", vocabulary |-> {}]
    ELSE [raised |-> "none", type |-> "csr_matrix", vocabulary |-> vocabulary(texts)]

\* The methods an object of the given type has.
Methods(type) ==
    IF type = "CountVectorizer"
    THEN {"fit", "fit_transform", "transform"}
    ELSE IF type = "csr_matrix" THEN {"toarray", "transpose", "multiply"}
    ELSE {}

RECURSIVE SumOver(_, _, _, _)
SumOver(terms, a, b, vocab) ==
    IF terms = {} THEN 0
    ELSE LET t == CHOOSE x \in terms : TRUE
         IN  count(t, a) * count(t, b) + SumOver(terms \ {t}, a, b, vocab)

\* a . b over the vocabulary's terms.
dot(a, b, vocab) == SumOver(vocab, a, b, vocab)

\* cosine_similarity(a, b) = (a.b) / (|a| * |b|), 0 when either vector is all
\* zero, kept as the square [num |-> (a.b)^2, den |-> |a|^2 * |b|^2].
cosine_similarity(a, b, vocab) ==
    IF dot(a, a, vocab) = 0 \/ dot(b, b, vocab) = 0
    THEN [num |-> 0, den |-> 1]
    ELSE [num |-> dot(a, b, vocab) * dot(a, b, vocab),
          den |-> dot(a, a, vocab) * dot(b, b, vocab)]

SimLess(x, y) == x.num * y.den < y.num * x.den

\* similarity.argmax(): the first index holding the largest value.
argmax(similarity) ==
    CHOOSE i \in 1..Len(similarity) :
        /\ \A j \in 1..Len(similarity) : ~SimLess(similarity[i], similarity[j])
        /\ \A j \in 1..(i - 1) : SimLess(similarity[j], similarity[i])

NoScore == [num |-> 0, den |-> 1]

\* What a call of ai_suggestions leaves behind: its query, the exception it
\* raised, the warning it showed, and the match (index into the data frame, 0
\* for none) and score it displayed.
NotCalled ==
    [called |-> FALSE, new_description |-> <<>>, raised |-> "none",
     warning |-> FALSE, best_match_idx |-> 0, score |-> NoScore]

Called(new_description) ==
    [NotCalled EXCEPT !.called = TRUE, !.new_description = new_description]

\* Lines 70-85 of ai_suggestions: vectorize, compare, display the best match.
best_match(new_description, df) ==
    LET descriptions == [i \in 1..Len(df) |-> df[i].description]
        vectorizer == fit_transform(descriptions)
    IN  IF vectorizer.raised # "none"
        THEN [Called(new_description) EXCEPT !.raised = vectorizer.raised]
        ELSE IF "transform" \notin Methods(vectorizer.type)
        THEN [Called(new_description) EXCEPT !.raised = "AttributeError"]
        ELSE LET similarity ==
                     [i \in 1..Len(descriptions) |->
                         cosine_similarity(new_description, descriptions[i],
                                           vectorizer.vocabulary)]
                 best_match_idx == argmax(similarity)
             IN  [Called(new_description) EXCEPT
                      !.best_match_idx = best_match_idx,
                      !.score = similarity[best_match_idx]]

\* Variant: the data frame is not tested for emptiness.
ai_suggestions_unguarded(new_description, df) ==
    best_match(new_description, df)

ai_suggestions(new_description, df) ==
    IF df = <<>>
    THEN [Called(new_description) EXCEPT !.warning = TRUE]
    ELSE best_match(new_description, df)

(* --------------------------- the script's runs ------------------------- *)

Init ==
    /\ page = "none"
    /\ pc = "start"
    /\ db = EmptyDb
    /\ clock = 0
    /\ logbook_df = NoRows
    /\ attendance_df = NoRows
    /\ fetched = {}
    /\ ui = {}
    /\ raised = "none"
    /\ suggestion = NotCalled
    /\ added = <<>>
    /\ marked = <<>>

\* The statement of create_tables that fails, if any. Each CREATE TABLE is
\* committed as it runs.
CreateFaults == {"none", "logbook", "attendance"}

create_tables_run(d, fault) ==
    IF fault = "logbook" THEN [db |-> d, raised |-> "sqlite3.Error"]
    ELSE IF fault = "attendance"
    THEN [db |-> create_table(d, "logbook"), raised |-> "sqlite3.Error"]
    ELSE create_tables(d, "none")

\* A (re-)execution of the script starts: its names are fresh, the cached
\* connection is fetched and create_tables(conn) runs.
module_init ==
    /\ pc \in {"start", "done"}
    /\ \E fault \in CreateFaults :
         LET r == create_tables_run(db, fault)
         IN  /\ db' = r.db
             /\ raised' = r.raised
             /\ pc' = IF r.raised = "none" THEN "ui" ELSE "done"
    /\ logbook_df' = NoRows
    /\ attendance_df' = NoRows
    /\ fetched' = {}
    /\ ui' = {}
    /\ suggestion' = NotCalled
    /\ page' = "none"
    /\ UNCHANGED <<clock, added, marked>>

\* "Add Log Entry": the form is submitted.
log_entry_form ==
    /\ pc = "ui"
    /\ page' = "Add Log Entry"
    /\ Len(db.logbook) < MaxRows
    /\ \E name \in Names, activity \in PickedActivities, date \in PickedDates,
          description \in Descriptions, fault \in Faults :
         LET r == add_log_entry(db, name, activity, strftime(date), description, fault)
         IN  /\ db' = r.db
             /\ raised' = r.raised
             /\ ui' = IF r.raised = "none" THEN {"Log entry added successfully!"} ELSE {}
             /\ added' = IF r.raised = "none"
                         THEN Append(added, [name |-> name, activity |-> activity,
                                             date |-> strftime(date),
                                             description |-> description])
                         ELSE added
    /\ pc' = "done"
    /\ UNCHANGED <<clock, logbook_df, attendance_df, fetched, suggestion, marked>>

\* "View Logbook".
view_logbook ==
    /\ pc = "ui"
    /\ page' = "View Logbook"
    /\ \/ /\ "logbook" \in db.tables
          /\ \E df \in get_log_entries(db) :
               /\ logbook_df' = df
               /\ ui' = IF df = <<>> THEN {"No log entries found."} ELSE {"dataframe"}
          /\ fetched' = {"logbook"}
          /\ raised' = "none"
       \/ /\ raised' = IF "logbook" \in db.tables THEN "sqlite3.Error" ELSE "no such table"
          /\ UNCHANGED <<logbook_df, fetched, ui>>
    /\ pc' = "done"
    /\ UNCHANGED <<db, clock, attendance_df, suggestion, added, marked>>

\* "AI Log Suggestions": the button is pressed with a description typed in.
ai_log_suggestions ==
    /\ pc = "ui"
    /\ page' = "AI Log Suggestions"
    /\ \/ /\ "logbook" \in db.tables
          /\ \E df \in get_log_entries(db), new_description \in Queries :
               /\ logbook_df' = df
               /\ IF new_description = <<>>
                  THEN /\ ui' = {"Please enter a description."}
                       /\ suggestion' = NotCalled
                       /\ raised' = "none"
                  ELSE LET s == ai_suggestions(new_description, df)
                       IN  /\ suggestion' = s
                           /\ raised' = s.raised
                           /\ ui' = IF s.warning
                                    THEN {"No logs available for AI suggestions."}
                                    ELSE IF s.raised = "none"
                                    THEN {"AI Suggested Similar Log Entry"}
                                    ELSE {}
          /\ fetched' = {"logbook"}
       \/ /\ raised' = IF "logbook" \in db.tables THEN "sqlite3.Error" ELSE "no such table"
          /\ UNCHANGED <<logbook_df, fetched, ui, suggestion>>
    /\ pc' = "done"
    /\ UNCHANGED <<db, clock, attendance_df, added, marked>>

\* "Mark Attendance": the form is submitted.
attendance_form ==
    /\ pc = "ui"
    /\ page' = "Mark Attendance"
    /\ Len(db.attendance) < MaxRows
    /\ \E student_name \in Students, roll_number \in RollNumbers,
          status \in Statuses, fault \in Faults :
         LET r == mark_attendance(db, student_name, roll_number, status, fault)
         IN  /\ db' = r.db
             /\ raised' = r.raised
             /\ ui' = IF r.raised = "none" THEN {"Attendance marked."} ELSE {}
             /\ marked' = IF r.raised = "none"
                          THEN Append(marked, [student_name |-> student_name,
                                               roll_number |-> roll_number,
                                               status |-> status, day |-> today])
                          ELSE marked
    /\ pc' = "done"
    /\ UNCHANGED <<clock, logbook_df, attendance_df, fetched, suggestion, added>>

\* "View Attendance".
view_attendance ==
    /\ pc = "ui"
    /\ page' = "View Attendance"
    /\ \/ /\ "attendance" \in db.tables
          /\ \E df \in get_attendance(db) :
               /\ attendance_df' = df
               /\ ui' = IF df = <<>> THEN {"No attendance records found."}
                        ELSE {"dataframe"}
          /\ fetched' = {"attendance"}
          /\ raised' = "none"
       \/ /\ raised' = IF "attendance" \in db.tables THEN "sqlite3.Error"
                       ELSE "no such table"
          /\ UNCHANGED <<attendance_df, fetched, ui>>
    /\ pc' = "done"
    /\ UNCHANGED <<db, clock, logbook_df, suggestion, added, marked>>

\* Midnight passes.
Tick ==
    /\ clock < MaxDay
    /\ clock' = clock + 1
    /\ UNCHANGED <<page, pc, db, logbook_df, attendance_df, fetched, ui, raised,
                   suggestion, added, marked>>

Next ==
    \/ module_init
    \/ log_entry_form
    \/ view_logbook
    \/ ai_log_suggestions
    \/ attendance_form
    \/ view_attendance
    \/ Tick

Spec == Init /\ [][Next]_vars

(* ------------------------------ properties ----------------------------- *)

DigitValue(c) == CHOOSE v \in 0..9 : DigitChar[v + 1] = c

\* The calendar date a YYYY-MM-DD text denotes.
ParseDate(t) ==
    [year |-> 1000 * DigitValue(t[1]) + 100 * DigitValue(t[2])
              + 10 * DigitValue(t[3]) + DigitValue(t[4]),
     month |-> 10 * DigitValue(t[6]) + DigitValue(t[7]),
     day |-> 10 * DigitValue(t[9]) + DigitValue(t[10])]

\* Calendar order.
DateBefore(a, b) ==
    \/ a.year < b.year
    \/ a.year = b.year /\ a.month < b.month
    \/ a.year = b.year /\ a.month = b.month /\ a.day < b.day

\* A logbook row without its id.
Entry(r) ==
    [name |-> r.name, activity |-> r.activity, date |-> r.date,
     description |-> r.description]

Occurrences(seq, e) == Cardinality({i \in 1..Len(seq) : seq[i] = e})

Entries(rows) == [i \in 1..Len(rows) |-> Entry(rows[i])]

\* Where the row with the given id stands in a data frame (0: nowhere).
Position(df, id) ==
    IF \E i \in 1..Len(df) : df[i].id = id
    THEN CHOOSE i \in 1..Len(df) : df[i].id = id
    ELSE 0

\* C1: once a run has read the logbook, the data frame holds exactly the
\* entries the add_log_entry calls added (as many rows, each entry as often
\* as it was added, with its name, activity, date and description), and no
\* row is followed by a row of a later calendar date.
C1_GetLogEntriesExactAndDescending ==
    "logbook" \in fetched =>
        /\ Len(logbook_df) = Len(added)
        /\ \A i \in 1..Len(added) :
               Occurrences(Entries(logbook_df), added[i]) = Occurrences(added, added[i])
        /\ \A i \in 1..Len(logbook_df) :
               Occurrences(added, Entry(logbook_df[i])) > 0
        /\ \A i \in 1..(Len(logbook_df) - 1) :
               ~DateBefore(ParseDate(logbook_df[i].date),
                           ParseDate(logbook_df[i + 1].date))

\* C1 witness: a read in which the entry added later, dated later, is listed
\* before the entry added earlier.
C1_Witness ==
    /\ "logbook" \in fetched
    /\ Len(logbook_df) >= 2
    /\ logbook_df[1].id > logbook_df[2].id
    /\ DateBefore(ParseDate(logbook_df[2].date), ParseDate(logbook_df[1].date))

\* Two calls of one day for one student and roll number: Present in call i,
\* Absent in the later call j.
PresentThenAbsent(i, j) ==
    /\ i < j
    /\ marked[i].student_name = marked[j].student_name
    /\ marked[i].roll_number = marked[j].roll_number
    /\ marked[i].day = marked[j].day
    /\ marked[i].status = "Present"
    /\ marked[j].status = "Absent"

\* Whether a row of a data frame is the row a call marked.
RowOf(r, m) ==
    /\ r.student_name = m.student_name
    /\ r.roll_number = m.roll_number
    /\ r.status = m.status
    /\ ParseDate(r.date) = m.day

\* C2 as stated: after Present then Absent for the same student on the same
\* day, get_attendance returns both rows (the k-th call's row is the k-th row
\* inserted) and lists the row marked later before the row marked earlier.
C2_LaterMarkListedFirst ==
    "attendance" \in fetched =>
        /\ Len(db.attendance) = Len(marked)
        /\ \A i, j \in 1..Len(marked) :
               PresentThenAbsent(i, j) =>
                   /\ Position(attendance_df, db.attendance[i].id) > 0
                   /\ Position(attendance_df, db.attendance[j].id) > 0
                   /\ Position(attendance_df, db.attendance[j].id)
                          < Position(attendance_df, db.attendance[i].id)

\* C2 amended: after Present then Absent for the same student on the same
\* day, get_attendance returns a row for each call, as many rows as calls
\* were made, and the two rows are different rows with different ids; the
\* rows are in date-descending order, which does not fix the order of the
\* two.
C2_BothRowsReturned ==
    "attendance" \in fetched =>
        /\ Len(attendance_df) = Len(marked)
        /\ \A i \in 1..(Len(attendance_df) - 1) :
               ~DateBefore(ParseDate(attendance_df[i].date),
                           ParseDate(attendance_df[i + 1].date))
        /\ \A i, j \in 1..Len(marked) :
               PresentThenAbsent(i, j) =>
                   \E p, q \in 1..Len(attendance_df) :
                       /\ p # q
                       /\ attendance_df[p].id # attendance_df[q].id
                       /\ RowOf(attendance_df[p], marked[i])
                       /\ RowOf(attendance_df[q], marked[j])

\* C2 witness: a read after the student was marked Present, then Absent, on
\* one day.
C2_Witness ==
    /\ "attendance" \in fetched
    /\ \E i, j \in 1..Len(marked) : PresentThenAbsent(i, j)

\* C3: the row a mark_attendance call appends carries the date the clock
\* shows at the call.
C3_AttendanceDateIsToday ==
    [][Len(db'.attendance) = Len(db.attendance) + 1 =>
           ParseDate(db'.attendance[Len(db'.attendance)].date) = today]_vars

\* C3 witness: a row marked after midnight has passed carries the new day.
C3_Witness ==
    /\ clock > 0
    /\ \E i \in 1..Len(db.attendance) :
           /\ ParseDate(db.attendance[i].date) = today
           /\ ParseDate(db.attendance[i].date) # StartDate

IsPrefix(a, b) == Len(a) <= Len(b) /\ \A i \in 1..Len(a) : a[i] = b[i]

\* C4: every step keeps every row of both tables as it is, with its id; a
\* step that ends a successful add or mark appends exactly one row to its own
\* table and leaves the other table as it is; no step does more.
C4_AppendOnly ==
    [][/\ IsPrefix(db.logbook, db'.logbook)
       /\ IsPrefix(db.attendance, db'.attendance)
       /\ Len(db'.logbook) + Len(db'.attendance)
              <= Len(db.logbook) + Len(db.attendance) + 1
       /\ (page = "none" /\ page' = "Add Log Entry" /\ raised' = "none") =>
              /\ Len(db'.logbook) = Len(db.logbook) + 1
              /\ db'.attendance = db.attendance
       /\ (page = "none" /\ page' = "Mark Attendance" /\ raised' = "none") =>
              /\ Len(db'.attendance) = Len(db.attendance) + 1
              /\ db'.logbook = db.logbook]_vars

\* C4 witness: rows were appended to both tables, two to the logbook.
C4_Witness == Len(db.logbook) >= 2 /\ Len(db.attendance) >= 1

\* C5: in each table the ids are pairwise distinct and a row inserted later
\* has a larger id than every row inserted earlier.
C5_IdsUniqueAndIncreasing ==
    /\ \A i, j \in 1..Len(db.logbook) :
           i < j => db.logbook[i].id < db.logbook[j].id
    /\ \A i, j \in 1..Len(db.attendance) :
           i < j => db.attendance[i].id < db.attendance[j].id

\* C5 witness: both tables hold rows, one of them two.
C5_Witness == Len(db.attendance) >= 2 /\ Len(db.logbook) >= 1

\* C6 as stated: a call whose corpus has exactly one entry, its description
\* identical to the query, ends without an exception and displays that entry
\* with similarity 1.
C6_IdenticalEntryScoresOne ==
    (/\ suggestion.called
     /\ Len(logbook_df) = 1
     /\ logbook_df[1].description = suggestion.new_description) =>
        /\ suggestion.raised = "none"
        /\ suggestion.best_match_idx = 1
        /\ suggestion.score.num = suggestion.score.den

\* C7: a call with an empty corpus returns its "no suggestion" notice without
\* raising and without a match or a score, whatever the query.
C7_EmptyCorpusNoSuggestion ==
    /\ (suggestion.called /\ logbook_df = <<>>) =>
           /\ suggestion.raised = "none"
           /\ suggestion.warning
           /\ suggestion.best_match_idx = 0
           /\ suggestion.score = NoScore
           /\ raised = "none"
           /\ ui = {"No logs available for AI suggestions."}
    /\ \A q \in Queries \cup Descriptions :
           ai_suggestions(q, <<>>) = [Called(q) EXCEPT !.warning = TRUE]

\* C7 witness: the suggestion page ran on an empty logbook.
C7_Witness ==
    /\ suggestion.called
    /\ "logbook" \in fetched
    /\ logbook_df = <<>>
    /\ db.logbook = <<>>

\* The similarity of the query of the run's call to row i of its data frame.
SimilarityTo(i) ==
    cosine_similarity(suggestion.new_description, logbook_df[i].description,
                      vocabulary([k \in 1..Len(logbook_df) |-> logbook_df[k].description]))

\* C8 as stated: a call with a non-empty corpus selects an entry of maximal
\* cosine similarity to the query, the first such entry in corpus order.
C8_SelectsFirstMaximum ==
    (suggestion.called /\ logbook_df # <<>>) =>
        /\ suggestion.best_match_idx \in 1..Len(logbook_df)
        /\ \A j \in 1..Len(logbook_df) :
               ~SimLess(SimilarityTo(suggestion.best_match_idx), SimilarityTo(j))
        /\ \A j \in 1..(suggestion.best_match_idx - 1) :
               SimLess(SimilarityTo(j), SimilarityTo(suggestion.best_match_idx))

PageSteps ==
    {"Add Log Entry", "View Logbook", "AI Log Suggestions", "Mark Attendance",
     "View Attendance"}

\* C9: a page runs only after create_tables has run in its run, so it finds
\* both tables; and a run of create_tables changes no row of either table and
\* drops no table, and changes nothing at all once both tables exist.
C9_CreateTablesFirstAndIdempotent ==
    [][/\ (page' \in PageSteps /\ page = "none") =>
              /\ pc = "ui"
              /\ db.tables = AllTables
              /\ raised' # "no such table"
       /\ (page' = "none" /\ pc # pc') =>
              /\ db'.logbook = db.logbook
              /\ db'.attendance = db.attendance
              /\ db'.sqlite_sequence = db.sqlite_sequence
              /\ db.tables \subseteq db'.tables
              /\ (pc' = "ui" => db'.tables = AllTables)
              /\ (db.tables = AllTables => db' = db)]_vars

\* C9 witness: a run has created the tables anew over rows of earlier runs.
C9_Witness ==
    /\ pc = "ui"
    /\ page = "none"
    /\ Len(db.logbook) >= 1
    /\ Len(db.attendance) >= 1

\* C10: whenever the storage fails in add_log_entry or mark_attendance, in
\* the statement or in the commit, the call raises and the database is as it
\* was; and a run whose add or mark raised shows no success notice and
\* leaves both tables as they were.
C10_StorageFailurePropagates ==
    /\ [](db.tables = AllTables =>
             \A fault \in Faults \ {"none"} :
                 /\ \A name \in Names, activity \in PickedActivities,
                       date \in PickedDates, description \in Descriptions :
                        LET r == add_log_entry(db, name, activity, strftime(date),
                                               description, fault)
                        IN  r.raised # "none" /\ r.db = db
                 /\ \A student_name \in Students, roll_number \in RollNumbers,
                       status \in Statuses :
                        LET r == mark_attendance(db, student_name, roll_number,
                                                 status, fault)
                        IN  r.raised # "none" /\ r.db = db)
    /\ [][(page' \in {"Add Log Entry", "Mark Attendance"} /\ page = "none"
           /\ raised' # "none") =>
              /\ db' = db
              /\ ui' = {}
              /\ added' = added
              /\ pc' = "done"]_vars

\* C10 witness: an add failed on a logbook that holds a row, which is kept.
C10_Witness ==
    /\ page = "Add Log Entry"
    /\ raised = "sqlite3.Error"
    /\ ui = {}
    /\ Len(db.logbook) >= 1
    /\ Len(added) = Len(db.logbook)

====
